---- MODULE Spec2Model ----
(***************************************************************************)
(* The Haiku backend of thread-priority (src/src/haiku.rs): the conversion *)
(* between the cross-platform priority scale 0..99 and Haiku's native      *)
(* scale 0..120, the policy codes, and the library calls that read and     *)
(* write the kernel's thread table through find_thread,                    *)
(* set_thread_priority and _get_thread_info.                               *)
(*                                                                         *)
(* Three specifications share the variables:                               *)
(*   Spec        any thread makes any library call, one call per step;     *)
(*   SpecClients one thread sets a priority and reads it back with its     *)
(*               next call, while the other threads set priorities;        *)
(*   SpecConv    the pure conversions applied to bounded inputs.           *)
(***************************************************************************)
EXTENDS Integers, Sequences, FiniteSets, TLC

VARIABLES
    prio,       \* the kernel's thread table: thread id -> thread_info.priority
    last,       \* the library call that completed last: arguments, result, native calls issued
    client      \* the thread that sets and reads back: its position and what it set

vars == <<prio, last, client>>

(***************************************************************************)
(* Bounds of the model.                                                    *)
(***************************************************************************)
NumThreads == 2
MaxNative == 320
MaxPolicyCode == 5
\* the library calls made in one run of SpecClients
MaxCalls == 3

(***************************************************************************)
(* Program constants.                                                      *)
(***************************************************************************)
HAIKU_MIN_PRIORITY == 0
HAIKU_MAX_PRIORITY == 120
HAIKU_NORMAL_PRIORITY == 10
\* ThreadPriorityValue's upper end, as haiku.rs writes it (/ 99, * 99, .min(99))
CROSSPLATFORM_MAX == 99

(***************************************************************************)
(* Values: Result, Error, ThreadSchedulePolicy, ThreadPriority.            *)
(***************************************************************************)
Ok(v) == [ok |-> TRUE, val |-> v]
Err(e) == [ok |-> FALSE, err |-> e]
Unit == "()"

ErrorOS(code) == [kind |-> "OS", code |-> code]
ErrorPriorityNotInRange(lo, hi) == [kind |-> "PriorityNotInRange", lo |-> lo, hi |-> hi]
ErrorPriority == [kind |-> "Priority",
                  msg |-> "limited to be called on the current thread"]

NormalOther == [kind |-> "Normal", p |-> "Other"]
RealtimeFifo == [kind |-> "Realtime", p |-> "Fifo"]
RealtimeRoundRobin == [kind |-> "Realtime", p |-> "RoundRobin"]
ThreadSchedulePolicy == {NormalOther, RealtimeFifo, RealtimeRoundRobin}
NoPolicy == [kind |-> "None", p |-> "None"]

\* ThreadPriority.  Os carries a u32, held as bit 31 (hi) and the low 31 bits
\* (v), since TLC integers are 32-bit signed.
Min == [tag |-> "Min", v |-> 0, hi |-> 0]
Max == [tag |-> "Max", v |-> 0, hi |-> 0]
Crossplatform(p) == [tag |-> "Crossplatform", v |-> p, hi |-> 0]
Os(hi, lo) == [tag |-> "Os", v |-> lo, hi |-> hi]
NoPriority == [tag |-> "None", v |-> 0, hi |-> 0]

ScheduleParams(n) == [sched_priority |-> n]

(***************************************************************************)
(* Integer casts.                                                          *)
(***************************************************************************)
\* `p as i32` of the u32 hi * 2^31 + lo: bit 31 set gives lo - 2^31
AsI32(hi, lo) == IF hi = 1 THEN (lo - 2147483647) - 1 ELSE lo
\* `x as u8` of a non-negative x
AsU8(x) == x % 256

(***************************************************************************)
(* Policy conversion.                                                      *)
(***************************************************************************)
NormalThreadSchedulePolicy_to_posix(p) ==
    CASE p = "Other" -> 3

RealtimeThreadSchedulePolicy_to_posix(p) ==
    CASE p = "Fifo" -> 1
      [] p = "RoundRobin" -> 2

ThreadSchedulePolicy_to_posix(policy) ==
    CASE policy.kind = "Normal" -> NormalThreadSchedulePolicy_to_posix(policy.p)
      [] policy.kind = "Realtime" -> RealtimeThreadSchedulePolicy_to_posix(policy.p)

ThreadSchedulePolicy_from_posix_swapped(policy) ==
    CASE policy = 1 -> Ok(RealtimeRoundRobin)
      [] policy = 2 -> Ok(RealtimeFifo)
      [] policy = 3 -> Ok(NormalOther)
      [] OTHER -> Ok(NormalOther)

ThreadSchedulePolicy_from_posix(policy) ==
    CASE policy = 1 -> Ok(RealtimeFifo)
      [] policy = 2 -> Ok(RealtimeRoundRobin)
      [] policy = 3 -> Ok(NormalOther)
      [] OTHER -> Ok(NormalOther)

(***************************************************************************)
(* Priority conversion.                                                    *)
(***************************************************************************)
min_value_for_policy(policy) == Ok(HAIKU_MIN_PRIORITY)

max_value_for_policy_by_kind(policy) ==
    IF policy.kind = "Realtime" THEN Ok(CROSSPLATFORM_MAX) ELSE Ok(HAIKU_MAX_PRIORITY)

max_value_for_policy(policy) == Ok(HAIKU_MAX_PRIORITY)

to_allowed_value_for_policy_no_upper(priority, policy) ==
    LET min_priority == min_value_for_policy(policy)
    IN  IF min_priority.val <= priority
        THEN Ok(priority)
        ELSE Err(ErrorPriorityNotInRange(min_priority.val, HAIKU_MAX_PRIORITY))

to_allowed_value_for_policy(priority, policy) ==
    LET min_priority == min_value_for_policy(policy)
        max_priority == max_value_for_policy(policy)
    IN  IF ~min_priority.ok THEN min_priority
        ELSE IF ~max_priority.ok THEN max_priority
        ELSE IF min_priority.val <= priority /\ priority <= max_priority.val
        THEN Ok(priority)
        ELSE Err(ErrorPriorityNotInRange(min_priority.val, max_priority.val))

\* line 169: (p as i32 * HAIKU_MAX_PRIORITY) / 99
haiku_priority_per_cent(p) == (p * HAIKU_MAX_PRIORITY) \div 100

haiku_priority(p) == (p * HAIKU_MAX_PRIORITY) \div CROSSPLATFORM_MAX

ThreadPriority_to_posix_os_unchecked(self, policy) ==
    CASE self.tag = "Min" -> min_value_for_policy(policy)
      [] self.tag = "Max" -> max_value_for_policy(policy)
      [] self.tag = "Crossplatform" ->
            to_allowed_value_for_policy(haiku_priority(self.v), policy)
      [] self.tag = "Os" -> Ok(AsI32(self.hi, self.v))

ThreadPriority_to_posix(self, policy) ==
    CASE self.tag = "Min" -> min_value_for_policy(policy)
      [] self.tag = "Max" -> max_value_for_policy(policy)
      [] self.tag = "Crossplatform" ->
            to_allowed_value_for_policy(haiku_priority(self.v), policy)
      [] self.tag = "Os" ->
            to_allowed_value_for_policy(AsI32(self.hi, self.v), policy)

ThreadPriority_from_posix_unscaled(params) ==
    Crossplatform(IF AsU8(params.sched_priority) < CROSSPLATFORM_MAX
                  THEN AsU8(params.sched_priority) ELSE CROSSPLATFORM_MAX)

\* line 181-182, for 0 <= sched_priority <= (2^31 - 1) \div 99, where the u32
\* product does not overflow: the quotient is cut to its low 8 bits by
\* `as u8`, and only then capped at 99.
ThreadPriority_from_posix(params) ==
    LET crossplatform ==
            AsU8((params.sched_priority * CROSSPLATFORM_MAX) \div HAIKU_MAX_PRIORITY)
    IN  Crossplatform(IF crossplatform < CROSSPLATFORM_MAX
                      THEN crossplatform ELSE CROSSPLATFORM_MAX)

(***************************************************************************)
(* The kernel kit (libroot), as the bindings and their comments describe   *)
(* it.  A native call is logged as [fn, id, arg, ret].                     *)
(***************************************************************************)
ThreadIds == 1..NumThreads
\* an id that names no thread of the table
NoSuchThread == NumThreads + 1
NativeIds == ThreadIds \cup {NoSuchThread}

\* negative status codes of the kernel: not allowed, bad thread id
NotAllowedCode == -1
BadThreadIdCode == -2

FindThreadCall(ret) == [fn |-> "find_thread", id |-> 0, arg |-> 0, ret |-> ret]
SetPriorityCall(id, arg, ret) == [fn |-> "set_thread_priority", id |-> id, arg |-> arg, ret |-> ret]
GetInfoCall(id, ret) == [fn |-> "_get_thread_info", id |-> id, arg |-> 0, ret |-> ret]

\* find_thread(NULL): the calling thread's id
find_thread(caller) == caller

\* set_thread_priority(thread, new_priority): the previous priority on
\* success, with the table updated; a negative code on failure, with the
\* table as it was.  The outcomes: [ret, prio].
set_thread_priority(tp, thread, new_priority) ==
    IF thread \in ThreadIds
    THEN {[ret |-> tp[thread], prio |-> [tp EXCEPT ![thread] = new_priority]],
          [ret |-> NotAllowedCode, prio |-> tp]}
    ELSE {[ret |-> BadThreadIdCode, prio |-> tp]}

\* _get_thread_info(id, &info, size): 0 with info.priority filled in, or a
\* non-zero code with info left zeroed.  The binding returns an i32 and the
\* caller tests it against 0, so a positive code stands among the failures.
\* The outcomes: [ret, priority].
get_thread_info(tp, id) ==
    IF id \in ThreadIds
    THEN {[ret |-> 0, priority |-> tp[id]]}
    ELSE {[ret |-> BadThreadIdCode, priority |-> 0], [ret |-> 1, priority |-> 0]}

(***************************************************************************)
(* The library's functions.  Each is the set of its possible outcomes      *)
(* [res, natives, prio] from the thread table tp: the result returned, the *)
(* native calls issued in order, and the thread table afterwards.          *)
(***************************************************************************)
Outcome(res, natives, tp) == [res |-> res, natives |-> natives, prio |-> tp]

thread_native_id(caller) == find_thread(caller)

set_haiku_thread_priority_le(tp, thread_id, priority) ==
    {Outcome(IF k.ret <= 0 THEN Err(ErrorOS(k.ret)) ELSE Ok(Unit),
             <<SetPriorityCall(thread_id, priority, k.ret)>>, k.prio)
        : k \in set_thread_priority(tp, thread_id, priority)}

set_haiku_thread_priority(tp, thread_id, priority) ==
    {Outcome(IF k.ret < 0 THEN Err(ErrorOS(k.ret)) ELSE Ok(Unit),
             <<SetPriorityCall(thread_id, priority, k.ret)>>, k.prio)
        : k \in set_thread_priority(tp, thread_id, priority)}

set_thread_priority_and_policy(tp, native, priority, policy) ==
    LET haiku_prio == ThreadPriority_to_posix(priority, policy)
    IN  IF ~haiku_prio.ok
        THEN {Outcome(haiku_prio, <<>>, tp)}
        ELSE set_haiku_thread_priority(tp, native, haiku_prio.val)

thread_schedule_policy_fifo == Ok(RealtimeFifo)

thread_schedule_policy == Ok(NormalOther)

set_current_thread_priority(tp, caller, priority) ==
    LET thread_id == thread_native_id(caller)
        policy == thread_schedule_policy
    IN  IF ~policy.ok
        THEN {Outcome(policy, <<FindThreadCall(thread_id)>>, tp)}
        ELSE {Outcome(o.res, <<FindThreadCall(thread_id)>> \o o.natives, o.prio)
                : o \in set_thread_priority_and_policy(tp, thread_id, priority, policy.val)}

thread_schedule_policy_param(tp, native) ==
    {Outcome(IF k.ret # 0
             THEN Err(ErrorOS(k.ret))
             ELSE Ok([policy |-> NormalOther, params |-> ScheduleParams(k.priority)]),
             <<GetInfoCall(native, k.ret)>>, tp)
        : k \in get_thread_info(tp, native)}

get_thread_priority(tp, native) ==
    {Outcome(IF ~o.res.ok THEN o.res ELSE Ok(ThreadPriority_from_posix(o.res.val.params)),
             o.natives, o.prio)
        : o \in thread_schedule_policy_param(tp, native)}

get_current_thread_priority(tp, caller) ==
    LET thread_id == thread_native_id(caller)
    IN  {Outcome(o.res, <<FindThreadCall(thread_id)>> \o o.natives, o.prio)
            : o \in get_thread_priority(tp, thread_id)}

\* trait ThreadExt, implemented for std::thread::Thread: self names a thread
ThreadExt_get_native_id(tp, caller, self) ==
    IF self = caller
    THEN {Outcome(Ok(thread_native_id(caller)), <<FindThreadCall(caller)>>, tp)}
    ELSE {Outcome(Err(ErrorPriority), <<>>, tp)}

ThreadExt_get_priority(tp, caller, self) == get_current_thread_priority(tp, caller)

ThreadExt_set_priority_on_self(tp, caller, self, priority) ==
    set_thread_priority_and_policy(tp, self, priority, NormalOther)

ThreadExt_set_priority(tp, caller, self, priority) ==
    set_current_thread_priority(tp, caller, priority)

ThreadExt_get_schedule_policy(tp, caller, self) ==
    {Outcome(thread_schedule_policy, <<>>, tp)}

ThreadExt_get_schedule_policy_param(tp, caller, self) ==
    LET thread_id == thread_native_id(caller)
    IN  {Outcome(o.res, <<FindThreadCall(thread_id)>> \o o.natives, o.prio)
            : o \in thread_schedule_policy_param(tp, thread_id)}

ThreadExt_set_priority_and_policy(tp, caller, self, policy, priority) ==
    LET thread_id == thread_native_id(caller)
    IN  {Outcome(o.res, <<FindThreadCall(thread_id)>> \o o.natives, o.prio)
            : o \in set_thread_priority_and_policy(tp, thread_id, priority, policy)}

(***************************************************************************)
(* The record of a completed call.  Fields a call does not have keep the   *)
(* placeholders 0, NoPriority, NoPolicy.                                   *)
(***************************************************************************)
Call(op, caller, self, native, priority, policy, o) ==
    [op |-> op, caller |-> caller, self |-> self, native |-> native,
     priority |-> priority, policy |-> policy,
     res |-> o.res, natives |-> o.natives,
     after_policy |-> NoPolicy,
     was_set |-> NoPriority, set_native |-> 0, undisturbed |-> FALSE]

\* history kept in the record of a policy query: the policy argument of the
\* call made just before it (NoPolicy when that call had none)
AfterPolicy(call) == [call EXCEPT !.after_policy = last.policy]

\* history kept in the record of the client's read-back: what it had set, on
\* which id, and whether no other thread's set on that id succeeded since
ReadBack(call) ==
    [call EXCEPT !.was_set = client.priority, !.set_native = client.native,
                 !.undisturbed = client.undisturbed]

NoCall == Call("none", 0, 0, 0, NoPriority, NoPolicy, Outcome(Ok(Unit), <<>>, <<>>))

NoClient == [id |-> 0, pc |-> "none", native |-> 0, priority |-> NoPriority,
             undisturbed |-> FALSE, calls |-> 0]

(***************************************************************************)
(* Inputs.                                                                 *)
(***************************************************************************)
\* Os values: in range (normal priority), just above the maximum, and with
\* bit 31 set (u32::MAX), which `as i32` turns negative
OsSamples == {Os(0, HAIKU_NORMAL_PRIORITY), Os(0, HAIKU_MAX_PRIORITY + 1), Os(1, 2147483647)}
\* Crossplatform's top value shares its native value with Max
Priorities == {Min, Max, Crossplatform(CROSSPLATFORM_MAX)} \cup OsSamples
\* the priorities tests/haiku.rs sets and reads back
ClientPriorities == {Min, Max, Crossplatform(23), Crossplatform(50)}
InitialPriorities == {HAIKU_MIN_PRIORITY, HAIKU_NORMAL_PRIORITY, HAIKU_MAX_PRIORITY}

(***************************************************************************)
(* Spec: every thread may make every library call.  A step is one call,    *)
(* which holds at most one native call that reads or writes the table.     *)
(***************************************************************************)
Init ==
    /\ prio \in [ThreadIds -> InitialPriorities]
    /\ last = NoCall
    /\ client = NoClient

Call_set_thread_priority_and_policy(c, native, priority, policy) ==
    \E o \in set_thread_priority_and_policy(prio, native, priority, policy) :
        /\ prio' = o.prio
        /\ last' = Call("set_thread_priority_and_policy", c, 0, native, priority, policy, o)
        /\ UNCHANGED client

Call_set_current_thread_priority(c, priority) ==
    \E o \in set_current_thread_priority(prio, c, priority) :
        /\ prio' = o.prio
        /\ last' = Call("set_current_thread_priority", c, 0, 0, priority, NoPolicy, o)
        /\ UNCHANGED client

Call_thread_schedule_policy(c) ==
    /\ last' = AfterPolicy(Call("thread_schedule_policy", c, 0, 0, NoPriority, NoPolicy,
                                Outcome(thread_schedule_policy, <<>>, prio)))
    /\ UNCHANGED <<prio, client>>

Call_thread_schedule_policy_param(c, native) ==
    \E o \in thread_schedule_policy_param(prio, native) :
        /\ prio' = o.prio
        /\ last' = AfterPolicy(Call("thread_schedule_policy_param", c, 0, native,
                                    NoPriority, NoPolicy, o))
        /\ UNCHANGED client

Call_get_thread_priority(c, native) ==
    \E o \in get_thread_priority(prio, native) :
        /\ prio' = o.prio
        /\ last' = Call("get_thread_priority", c, 0, native, NoPriority, NoPolicy, o)
        /\ UNCHANGED client

Call_get_current_thread_priority(c) ==
    \E o \in get_current_thread_priority(prio, c) :
        /\ prio' = o.prio
        /\ last' = Call("get_current_thread_priority", c, 0, 0, NoPriority, NoPolicy, o)
        /\ UNCHANGED client

Call_ThreadExt_get_native_id(c, self) ==
    \E o \in ThreadExt_get_native_id(prio, c, self) :
        /\ prio' = o.prio
        /\ last' = Call("ThreadExt::get_native_id", c, self, 0, NoPriority, NoPolicy, o)
        /\ UNCHANGED client

Call_ThreadExt_get_priority(c, self) ==
    \E o \in ThreadExt_get_priority(prio, c, self) :
        /\ prio' = o.prio
        /\ last' = Call("ThreadExt::get_priority", c, self, 0, NoPriority, NoPolicy, o)
        /\ UNCHANGED client

Call_ThreadExt_set_priority(c, self, priority) ==
    \E o \in ThreadExt_set_priority(prio, c, self, priority) :
        /\ prio' = o.prio
        /\ last' = Call("ThreadExt::set_priority", c, self, 0, priority, NoPolicy, o)
        /\ UNCHANGED client

Call_ThreadExt_get_schedule_policy(c, self) ==
    \E o \in ThreadExt_get_schedule_policy(prio, c, self) :
        /\ prio' = o.prio
        /\ last' = AfterPolicy(Call("ThreadExt::get_schedule_policy", c, self, 0,
                                    NoPriority, NoPolicy, o))
        /\ UNCHANGED client

Call_ThreadExt_get_schedule_policy_param(c, self) ==
    \E o \in ThreadExt_get_schedule_policy_param(prio, c, self) :
        /\ prio' = o.prio
        /\ last' = AfterPolicy(Call("ThreadExt::get_schedule_policy_param", c, self, 0,
                                    NoPriority, NoPolicy, o))
        /\ UNCHANGED client

Call_ThreadExt_set_priority_and_policy(c, self, policy, priority) ==
    \E o \in ThreadExt_set_priority_and_policy(prio, c, self, policy, priority) :
        /\ prio' = o.prio
        /\ last' = Call("ThreadExt::set_priority_and_policy", c, self, 0, priority, policy, o)
        /\ UNCHANGED client

Next ==
    \E c \in ThreadIds :
        \/ \E native \in NativeIds, priority \in Priorities, policy \in ThreadSchedulePolicy :
              Call_set_thread_priority_and_policy(c, native, priority, policy)
        \/ \E priority \in Priorities : Call_set_current_thread_priority(c, priority)
        \/ Call_thread_schedule_policy(c)
        \/ \E native \in NativeIds : Call_thread_schedule_policy_param(c, native)
        \/ \E native \in NativeIds : Call_get_thread_priority(c, native)
        \/ Call_get_current_thread_priority(c)
        \/ \E self \in ThreadIds : Call_ThreadExt_get_native_id(c, self)
        \/ \E self \in ThreadIds : Call_ThreadExt_get_priority(c, self)
        \/ \E self \in ThreadIds, priority \in Priorities :
              Call_ThreadExt_set_priority(c, self, priority)
        \/ \E self \in ThreadIds : Call_ThreadExt_get_schedule_policy(c, self)
        \/ \E self \in ThreadIds : Call_ThreadExt_get_schedule_policy_param(c, self)
        \/ \E self \in ThreadIds, policy \in ThreadSchedulePolicy, priority \in Priorities :
              Call_ThreadExt_set_priority_and_policy(c, self, policy, priority)

Spec == Init /\ [][Next]_vars

(***************************************************************************)
(* SpecClients: thread client.id calls set_thread_priority_and_policy on   *)
(* some id and, when that succeeded, reads back with its next call: either *)
(* get_thread_priority on the id it set, or get_current_thread_priority    *)
(* (the read-back of tests/haiku.rs 62-77, which sets the caller's own     *)
(* id).  Every other thread may set any thread's priority in between.      *)
(***************************************************************************)
InitClients ==
    /\ prio = [t \in ThreadIds |-> HAIKU_NORMAL_PRIORITY]
    /\ last = NoCall
    /\ \E c \in ThreadIds :
          client = [id |-> c, pc |-> "start", native |-> 0,
                    priority |-> NoPriority, undisturbed |-> FALSE, calls |-> 0]

\* one more call made in this run
Counted(cl) == [cl EXCEPT !.calls = @ + 1]

ClientAtStart ==
    [client EXCEPT !.pc = "start", !.native = 0,
                   !.priority = NoPriority, !.undisturbed = FALSE]

\* the client's record after a call of another thread that returned res:
\* a successful set on the id the client set disturbs it
Disturbed(native, res) ==
    IF res.ok /\ client.pc = "afterSet" /\ native = client.native
    THEN [client EXCEPT !.undisturbed = FALSE]
    ELSE client

Client_set(native, priority, policy) ==
    /\ client.calls < MaxCalls
    /\ client.pc = "start"
    /\ \E o \in set_thread_priority_and_policy(prio, native, priority, policy) :
          /\ prio' = o.prio
          /\ last' = Call("set_thread_priority_and_policy", client.id, 0, native,
                          priority, policy, o)
          /\ client' = Counted(IF o.res.ok
                               THEN [client EXCEPT !.pc = "afterSet", !.native = native,
                                                   !.priority = priority,
                                                   !.undisturbed = TRUE]
                               ELSE client)

Client_get ==
    /\ client.calls < MaxCalls
    /\ client.pc = "afterSet"
    /\ \E o \in get_thread_priority(prio, client.native) :
          /\ prio' = o.prio
          /\ last' = ReadBack(Call("get_thread_priority", client.id, 0, client.native,
                                   NoPriority, NoPolicy, o))
          /\ client' = Counted(ClientAtStart)

Client_get_current ==
    /\ client.calls < MaxCalls
    /\ client.pc = "afterSet"
    /\ \E o \in get_current_thread_priority(prio, client.id) :
          /\ prio' = o.prio
          /\ last' = ReadBack(Call("get_current_thread_priority", client.id, 0, 0,
                                   NoPriority, NoPolicy, o))
          /\ client' = Counted(ClientAtStart)

Other_set(c, native, priority, policy) ==
    /\ client.calls < MaxCalls
    /\ c # client.id
    /\ \E o \in set_thread_priority_and_policy(prio, native, priority, policy) :
          /\ prio' = o.prio
          /\ last' = Call("set_thread_priority_and_policy", c, 0, native,
                          priority, policy, o)
          /\ client' = Counted(Disturbed(native, o.res))

Other_set_current(c, priority) ==
    /\ client.calls < MaxCalls
    /\ c # client.id
    /\ \E o \in set_current_thread_priority(prio, c, priority) :
          /\ prio' = o.prio
          /\ last' = Call("set_current_thread_priority", c, 0, 0, priority, NoPolicy, o)
          /\ client' = Counted(Disturbed(thread_native_id(c), o.res))

NextClients ==
    \/ \E native \in NativeIds, priority \in ClientPriorities, policy \in ThreadSchedulePolicy :
          Client_set(native, priority, policy)
    \/ Client_get
    \/ Client_get_current
    \/ \E c \in ThreadIds, native \in NativeIds, priority \in ClientPriorities,
          policy \in ThreadSchedulePolicy :
          Other_set(c, native, priority, policy)
    \/ \E c \in ThreadIds, priority \in ClientPriorities : Other_set_current(c, priority)

SpecClients == InitClients /\ [][NextClients]_vars

(***************************************************************************)
(* SpecConv: the pure conversions, each applied to an input of its domain. *)
(***************************************************************************)
ConvPriorities == {Min, Max} \cup {Crossplatform(p) : p \in 0..CROSSPLATFORM_MAX} \cup OsSamples
PolicyCodes == (0 - 1)..MaxPolicyCode

InitConv ==
    /\ prio = <<>>
    /\ last = NoCall
    /\ client = NoClient

Pure(op, native, priority, policy, res) ==
    Call(op, 0, 0, native, priority, policy, Outcome(res, <<>>, prio))

Conv_min_value_for_policy(policy) ==
    /\ last' = Pure("min_value_for_policy", 0, NoPriority, policy,
                    min_value_for_policy(policy))
    /\ UNCHANGED <<prio, client>>

Conv_max_value_for_policy(policy) ==
    /\ last' = Pure("max_value_for_policy", 0, NoPriority, policy,
                    max_value_for_policy(policy))
    /\ UNCHANGED <<prio, client>>

Conv_to_posix(priority, policy) ==
    /\ last' = Pure("ThreadPriority::to_posix", 0, priority, policy,
                    ThreadPriority_to_posix(priority, policy))
    /\ UNCHANGED <<prio, client>>

Conv_from_posix(n) ==
    /\ last' = Pure("ThreadPriority::from_posix", n, NoPriority, NoPolicy,
                    Ok(ThreadPriority_from_posix(ScheduleParams(n))))
    /\ UNCHANGED <<prio, client>>

\* to_posix, then from_posix of the native value it gave (kept in native)
Conv_round_trip(priority, policy) ==
    LET h == ThreadPriority_to_posix(priority, policy)
    IN  /\ last' = IF h.ok
                   THEN Pure("priority_round_trip", h.val, priority, policy,
                             Ok(ThreadPriority_from_posix(ScheduleParams(h.val))))
                   ELSE Pure("priority_round_trip", 0, priority, policy, h)
        /\ UNCHANGED <<prio, client>>

Conv_policy_to_posix(policy) ==
    /\ last' = Pure("ThreadSchedulePolicy::to_posix", ThreadSchedulePolicy_to_posix(policy),
                    NoPriority, policy, Ok(Unit))
    /\ UNCHANGED <<prio, client>>

Conv_policy_from_posix(code) ==
    /\ last' = Pure("ThreadSchedulePolicy::from_posix", code, NoPriority, NoPolicy,
                    ThreadSchedulePolicy_from_posix(code))
    /\ UNCHANGED <<prio, client>>

\* to_posix, then from_posix of the code it gave (kept in native)
Conv_policy_round_trip(policy) ==
    /\ last' = Pure("policy_round_trip", ThreadSchedulePolicy_to_posix(policy),
                    NoPriority, policy,
                    ThreadSchedulePolicy_from_posix(ThreadSchedulePolicy_to_posix(policy)))
    /\ UNCHANGED <<prio, client>>

NextConv ==
    \/ \E policy \in ThreadSchedulePolicy : Conv_min_value_for_policy(policy)
    \/ \E policy \in ThreadSchedulePolicy : Conv_max_value_for_policy(policy)
    \/ \E priority \in ConvPriorities, policy \in ThreadSchedulePolicy :
          Conv_to_posix(priority, policy)
    \/ \E n \in 0..MaxNative : Conv_from_posix(n)
    \/ \E priority \in ConvPriorities, policy \in ThreadSchedulePolicy :
          Conv_round_trip(priority, policy)
    \/ \E policy \in ThreadSchedulePolicy : Conv_policy_to_posix(policy)
    \/ \E code \in PolicyCodes : Conv_policy_from_posix(code)
    \/ \E policy \in ThreadSchedulePolicy : Conv_policy_round_trip(policy)

SpecConv == InitConv /\ [][NextConv]_vars

(***************************************************************************)
(* Properties.                                                             *)
(***************************************************************************)
Abs(x) == IF x < 0 THEN 0 - x ELSE x
NativeRange == 0..120

\* C1: for every Crossplatform(p), p in 0..99, and every policy, to_posix
\* succeeds with a native value h in 0..120, and from_posix of h is
\* Crossplatform(q) with |q - p| <= 1.  (SpecConv)
C1_RoundTripWithinOne ==
    (last.op = "priority_round_trip" /\ last.priority.tag = "Crossplatform") =>
        /\ last.res.ok
        /\ last.native \in NativeRange
        /\ last.res.val.tag = "Crossplatform"
        /\ Abs(last.res.val.v - last.priority.v) <= 1

\* C1 witness: Crossplatform(50) goes to native 60 and comes back as 49
C1_Witness ==
    /\ last.op = "priority_round_trip"
    /\ last.priority = Crossplatform(50)
    /\ last.policy = RealtimeRoundRobin
    /\ last.native = 60
    /\ last.res = Ok(Crossplatform(49))

\* what a get must return to be consistent with the priority that was set
ConsistentWith(priority, got) ==
    CASE priority.tag = "Crossplatform" ->
            got.tag = "Crossplatform" /\ Abs(got.v - priority.v) <= 1
      [] priority.tag = "Min" -> got = Crossplatform(0)
      [] priority.tag = "Max" -> got = Crossplatform(99)
      [] OTHER -> TRUE

\* C2 as stated: a get_thread_priority(id) that directly follows the same
\* thread's successful set_thread_priority_and_policy(id, priority, policy)
\* returns a value consistent with priority, whatever the other threads
\* called in between.  (SpecClients)
C2_AsStated ==
    (last.op = "get_thread_priority" /\ last.was_set.tag # "None") =>
        /\ last.res.ok
        /\ ConsistentWith(last.was_set, last.res.val)

\* C2 amended: the same, provided no set call of another thread on that id
\* succeeded between the set and the get; and likewise for the read-back
\* get_current_thread_priority() when the id set was the caller's own.
\* (SpecClients)
C2_SetThenGetUndisturbed ==
    /\ (last.op = "get_thread_priority" /\ last.was_set.tag # "None" /\ last.undisturbed) =>
          /\ last.res.ok
          /\ ConsistentWith(last.was_set, last.res.val)
    /\ (last.op = "get_current_thread_priority" /\ last.was_set.tag # "None"
          /\ last.undisturbed /\ last.set_native = last.caller) =>
          /\ last.res.ok
          /\ ConsistentWith(last.was_set, last.res.val)

\* C2 witness: a thread set another thread's priority to Crossplatform(50)
\* and read back Crossplatform(49), undisturbed
C2_Witness ==
    /\ last.op = "get_thread_priority"
    /\ last.undisturbed
    /\ last.native # last.caller
    /\ last.was_set = Crossplatform(50)
    /\ last.res = Ok(Crossplatform(49))

OutOfRangeOs(priority) ==
    priority.tag = "Os" /\ (priority.hi = 1 \/ priority.v > 120)
RangeError == Err(ErrorPriorityNotInRange(0, 120))
IssuesSet(natives) ==
    \E i \in 1..Len(natives) : natives[i].fn = "set_thread_priority"
PlainSetOps == {"set_thread_priority_and_policy", "set_current_thread_priority"}

\* C3 as stated: setting Os(v), v > 120, through set_thread_priority_and_policy
\* or set_current_thread_priority fails with PriorityNotInRange(0..=120)
\* before any native call is issued.  (Spec)
C3_AsStated ==
    (last.op \in PlainSetOps /\ OutOfRangeOs(last.priority)) =>
        /\ last.res = RangeError
        /\ last.natives = <<>>

\* C3 amended: it fails with PriorityNotInRange(0..=120) before the native
\* set_thread_priority call is issued, so the thread table is unchanged;
\* set_thread_priority_and_policy issues no native call at all, and
\* set_current_thread_priority has issued find_thread, and only that.  (Spec)
C3_FailsBeforeNativeSet ==
    [][(last'.op \in PlainSetOps /\ OutOfRangeOs(last'.priority)) =>
          /\ last'.res = RangeError
          /\ ~IssuesSet(last'.natives)
          /\ prio' = prio
          /\ last'.op = "set_thread_priority_and_policy" => last'.natives = <<>>
          /\ last'.op = "set_current_thread_priority" =>
                last'.natives = <<FindThreadCall(last'.caller)>>]_vars

\* C3 witness: set_current_thread_priority(Os(u32::MAX)) was refused
C3_Witness ==
    /\ last.op = "set_current_thread_priority"
    /\ last.priority = Os(1, 2147483647)
    /\ last.res = RangeError
    /\ last.natives = <<FindThreadCall(last.caller)>>

\* C4: every value passed to the native set_thread_priority lies in 0..120,
\* every thread's priority stays in 0..120, and thread_schedule_policy_param
\* reports a sched_priority in HAIKU_MIN_PRIORITY..HAIKU_MAX_PRIORITY.  (Spec)
C4_NativeValuesInRange ==
    /\ \A i \in 1..Len(last.natives) :
          last.natives[i].fn = "set_thread_priority" => last.natives[i].arg \in NativeRange
    /\ \A t \in ThreadIds : prio[t] \in NativeRange
    /\ (last.op \in {"thread_schedule_policy_param", "ThreadExt::get_schedule_policy_param"}
          /\ last.res.ok) =>
            /\ HAIKU_MIN_PRIORITY <= last.res.val.params.sched_priority
            /\ last.res.val.params.sched_priority <= HAIKU_MAX_PRIORITY

\* C4 witness: a set of Crossplatform(99) passed the native maximum 120 for a
\* thread whose priority was 0
C4_Witness ==
    /\ last.op = "set_thread_priority_and_policy"
    /\ last.priority = Crossplatform(99)
    /\ last.native \in ThreadIds
    /\ last.res.ok
    /\ last.natives = <<SetPriorityCall(last.native, 120, 0)>>
    /\ prio[last.native] = 120

\* C5: Min and Max convert, under every policy and without error, to 0 and
\* 120, the values of min_value_for_policy and max_value_for_policy.  (SpecConv)
C5_MinMaxBounds ==
    /\ HAIKU_MIN_PRIORITY = 0 /\ HAIKU_MAX_PRIORITY = 120
    /\ (last.op = "ThreadPriority::to_posix" /\ last.priority = Min) => last.res = Ok(0)
    /\ (last.op = "ThreadPriority::to_posix" /\ last.priority = Max) => last.res = Ok(120)
    /\ last.op = "min_value_for_policy" => last.res = Ok(0)
    /\ last.op = "max_value_for_policy" => last.res = Ok(120)

\* C5 witness: Max under Realtime(Fifo) gave 120
C5_Witness ==
    /\ last.op = "ThreadPriority::to_posix"
    /\ last.priority = Max
    /\ last.policy = RealtimeFifo
    /\ last.res = Ok(120)

\* C6: thread_schedule_policy and ThreadExt::get_schedule_policy return
\* Ok(Normal(Other)), and a successful thread_schedule_policy_param reports
\* Normal(Other), whatever policy an earlier set call was given.  (Spec)
C6_PolicyAlwaysNormalOther ==
    /\ last.op \in {"thread_schedule_policy", "ThreadExt::get_schedule_policy"} =>
          last.res = Ok(NormalOther)
    /\ (last.op \in {"thread_schedule_policy_param", "ThreadExt::get_schedule_policy_param"}
          /\ last.res.ok) =>
            last.res.val.policy = NormalOther

\* C6 witness: thread_schedule_policy answered right after a set call that
\* was given Realtime(Fifo)
C6_Witness ==
    /\ last.op = "thread_schedule_policy"
    /\ last.after_policy = RealtimeFifo
    /\ last.res = Ok(NormalOther)

InRangePriority(priority) ==
    \/ priority.tag \in {"Min", "Max", "Crossplatform"}
    \/ priority.tag = "Os" /\ priority.hi = 0 /\ priority.v <= 120

\* C7: set_thread_priority_and_policy with an in-range priority issues the
\* native set once and returns Err(OS(r)) exactly when it returned r < 0,
\* Ok(()) otherwise; thread_schedule_policy_param and get_thread_priority
\* issue the native get-info once and return Err(OS(r)) exactly when it
\* returned r # 0.  (Spec)
C7_NativeFailureSurfaced ==
    /\ (last.op = "set_thread_priority_and_policy" /\ InRangePriority(last.priority)) =>
          /\ Len(last.natives) = 1
          /\ last.natives[1].fn = "set_thread_priority"
          /\ last.natives[1].id = last.native
          /\ last.res = IF last.natives[1].ret < 0
                        THEN Err(ErrorOS(last.natives[1].ret))
                        ELSE Ok(Unit)
    /\ last.op \in {"thread_schedule_policy_param", "get_thread_priority"} =>
          /\ Len(last.natives) = 1
          /\ last.natives[1].fn = "_get_thread_info"
          /\ last.natives[1].id = last.native
          /\ last.res.ok <=> last.natives[1].ret = 0
          /\ ~last.res.ok => last.res = Err(ErrorOS(last.natives[1].ret))

\* C7 witness: the native set returned the previous priority 0 and the call
\* returned Ok(())
C7_Witness ==
    /\ last.op = "set_thread_priority_and_policy"
    /\ last.priority = Max
    /\ last.natives = <<SetPriorityCall(last.native, 120, 0)>>
    /\ last.res = Ok(Unit)

\* C8: Fifo <-> 1, RoundRobin <-> 2, Other <-> 3, so from_posix(p.to_posix())
\* is Ok(p) for every policy p; from_posix never fails, and every other code
\* gives Ok(Normal(Other)).  (SpecConv)
C8_PolicyCodes ==
    /\ last.op = "ThreadSchedulePolicy::to_posix" =>
          last.native = (CASE last.policy = RealtimeFifo -> 1
                           [] last.policy = RealtimeRoundRobin -> 2
                           [] last.policy = NormalOther -> 3)
    /\ last.op = "policy_round_trip" => last.res = Ok(last.policy)
    /\ last.op = "ThreadSchedulePolicy::from_posix" =>
          last.res = (CASE last.native = 1 -> Ok(RealtimeFifo)
                        [] last.native = 2 -> Ok(RealtimeRoundRobin)
                        [] OTHER -> Ok(NormalOther))

\* C8 witness: the unrecognized code 0 gave Ok(Normal(Other))
C8_Witness ==
    /\ last.op = "ThreadSchedulePolicy::from_posix"
    /\ last.native = 0
    /\ last.res = Ok(NormalOther)

\* C9 as stated: for every native n >= 0, also above 120, from_posix returns
\* Crossplatform(min(99, floor(n * 99 / 120))).  (SpecConv)
C9_AsStated ==
    last.op = "ThreadPriority::from_posix" =>
        last.res.val = Crossplatform(IF (last.native * 99) \div 120 < 99
                                     THEN (last.native * 99) \div 120 ELSE 99)

ExtSetOps == {"ThreadExt::set_priority", "ThreadExt::set_priority_and_policy"}

\* C10: on any handle, ThreadExt's set_priority and set_priority_and_policy
\* change at most the calling thread's priority, get_priority reads the
\* calling thread's priority, and get_native_id returns Ok(caller's id) on
\* the caller's own handle and Err(Error::Priority) on any other.  (Spec)
C10_ThreadExtOnCallerOnly ==
    [][/\ last'.op \in ExtSetOps =>
            \A t \in ThreadIds \ {last'.caller} : prio'[t] = prio[t]
       /\ last'.op = "ThreadExt::get_priority" =>
            /\ last'.natives = <<FindThreadCall(last'.caller), GetInfoCall(last'.caller, 0)>>
            /\ last'.res = Ok(ThreadPriority_from_posix(ScheduleParams(prio[last'.caller])))
       /\ last'.op = "ThreadExt::get_native_id" =>
            last'.res = IF last'.self = last'.caller
                        THEN Ok(last'.caller)
                        ELSE Err(ErrorPriority)]_vars

\* C10 witness: set_priority(Max) on another thread's handle raised the
\* caller's priority and left the other thread's below it
C10_Witness ==
    /\ last.op = "ThreadExt::set_priority"
    /\ last.self # last.caller
    /\ last.priority = Max
    /\ last.res.ok
    /\ prio[last.caller] = 120
    /\ prio[last.self] < 120

====
